---- MODULE Spec2Model ----
(***************************************************************************)
(* Life cycle of the two benchmark backends of optimum_benchmark:          *)
(*   PyTorchBackend (backends/pytorch/backend.py) and                      *)
(*   PyTXIBackend   (backends/py_txi/backend.py).                          *)
(* One backend instance is constructed from a configuration, then used     *)
(* (forward / prefill / generate) and cleaned.  The constructor is modelled *)
(* statement group by statement group; pc is the constructor's position.   *)
(*                                                                         *)
(* Configuration fields that the code reads at several places are fixed in *)
(* Init.  Fields that are read at exactly one place of the constructor     *)
(* (device_map, cache_implementation, eval_mode, to_bettertransformer,     *)
(* peft_type, torch_compile) are drawn where they are read and remembered  *)
(* in `toggles`; the autocast settings only change process-wide torch      *)
(* state and are drawn where they are read.                                *)
(*                                                                         *)
(* Floating point settings of the generation config are kept in            *)
(* hundredths (temperature 1.0 is 100).                                    *)
(***************************************************************************)
EXTENDS Integers, Sequences, FiniteSets, TLC

\* ------------------------------------------------------------------ bounds
NumModules == 2      \* modules of the model architecture (named_modules)
MaxCleans == 2       \* calls of clean() on one instance
MaxCalls == 1        \* forward / prefill / generate calls on one instance

\* ----------------------------------------------------------------- domains
Backends == {"pytorch", "py_txi"}
Libraries == {"timm", "diffusers", "transformers", "sentence_transformers"}
TEXT_GENERATION_TASKS == {"text-generation"}
TEXT_EMBEDDING_TASKS == {"feature-extraction"}
OtherTasks == {"image-classification"}
Tasks == TEXT_GENERATION_TASKS \cup TEXT_EMBEDDING_TASKS \cup OtherTasks
Schemes == {"None", "bnb", "gptq", "awq", "fp8"}
Devices == {"cpu", "cuda", "mps"}
Modules == 1..NumModules

OrigModel == "org/model"                \* config.model as passed in
OrigVolumes == "host_volume"            \* config.volumes as passed in
TmpVolumes == "tmpdir_as_data"          \* {tmpdir.name: {"bind": "/data", "mode": "rw"}}
HostNoWeightsPath == "tmpdir/no_weights_model"   \* os.path.join(tmpdir.name, "no_weights_model")
TXINoWeightsPath == "/data/no_weights_model"

\* The tasks a library's models are benchmarked with.
LibraryTasks(lib) ==
    CASE lib = "timm" -> OtherTasks
      [] lib = "diffusers" -> OtherTasks
      [] OTHER -> TEXT_GENERATION_TASKS \cup TEXT_EMBEDDING_TASKS

\* ----------------------------------------------------------------- tensors
\* A tensor of a checkpoint: module 0 is the checkpoint's root.
Tensor(m, p) == [module |-> m, param |-> p]
\* torch.nn.Linear(1, 1).state_dict()
LinearStateDict == {Tensor(0, "weight"), Tensor(0, "bias")}
\* The state dict of the whole architecture (every module's own weight).
FullStateDict == {Tensor(m, "weight") : m \in Modules}

\* ------------------------------------------------------- generation config
GenCfg(e, p, t, tp, tk) ==
    [eos_token_id |-> e, pad_token_id |-> p, temperature |-> t, top_p |-> tp, top_k |-> tk]
\* Generation configs a model repository may ship.
HubGenerationConfigs == {GenCfg(2, 0, 70, 90, 40), GenCfg(1, 1, 100, 100, 50)}

VARIABLES
    backend,            \* which class is instantiated
    config,             \* self.config (model and volumes are mutated by the code)
    toggles,            \* single-read config fields found set so far
    pc,                 \* position of the constructor / life cycle
    attrs,              \* attributes set on self (hasattr)
    quantization_config,\* self.quantization_config ("None" while unset)
    generation_config,  \* self.generation_config (in memory)
    hub_generation,     \* generation config shipped by the model repository
    in_features,        \* modules of the architecture that have in_features (known once
                        \* create_no_weights_model of a quantized model has run)
    tmpdir,             \* the temporary directory on disk: "none", "exists", "removed"
    nwdir,              \* contents of <tmpdir>/no_weights_model
    snapshot,           \* the model's snapshot in the hub cache of the volume
    handle,             \* self.pretrained_model
    loads,              \* engine load calls made so far, in order
    inference,          \* calls that reached the engine, during construction and in use
    lastCall,           \* the last forward/prefill/generate call and its outcome
    calls,              \* number of forward/prefill/generate calls
    cudaCache,          \* the accelerator cache holds blocks freed by this backend
    released,           \* how often each resource was actually released
    cleans,             \* number of clean() calls that returned
    error,              \* exception that ended the constructor ("none" if none)
    conc                \* PyTXIBackend instances under construction in other threads,
                        \* and the config objects they were given

vars == <<backend, config, toggles, pc, attrs, quantization_config, generation_config,
          hub_generation, in_features, tmpdir, nwdir, snapshot, handle, loads,
          inference, lastCall, calls, cudaCache, released, cleans, error, conc>>


\* ------------------------------------------------------------ shared helpers
NoHandle == [kind |-> "none", transforms |-> <<>>]
EmptyDir == [exists |-> FALSE, tensors |-> {}, has_config |-> FALSE,
             has_generation |-> FALSE, generation |-> GenCfg(0, 0, 0, 0, 0)]
NoCall == [op |-> "none", outcome |-> "none"]

Fail(e) == /\ error' = e
           /\ pc' = "failed"

\* tempfile.TemporaryDirectory.cleanup(): removes the directory if it is still there.
TmpdirAfterCleanup(t) == IF t = "exists" THEN "removed" ELSE t
NwdirAfterCleanup(t, d) == IF t = "exists" THEN EmptyDir ELSE d

\* Faulty variant: clean() leaves the temporary directory alone.
CleansTmpdir_Never(a) == FALSE

\* Whether clean() calls self.tmpdir.cleanup(): hasattr guards the call.
CleansTmpdir(a) == "tmpdir" \in a

\* Where an engine finds the model it is asked to load.
ResolveSource(model_id, volumes) ==
    CASE model_id = HostNoWeightsPath -> "no_weights_model"
      [] model_id = TXINoWeightsPath /\ volumes = TmpVolumes -> "no_weights_model"
      [] model_id = TXINoWeightsPath -> "missing"
      [] OTHER -> "hub"

\* ------------------------------------------------------------ PyTorchBackend
is_quantized(c) ==
    c.quantization_scheme # "None" \/ c.pretrained_quant_method # "None"
is_bnb_quantized(c) ==
    c.quantization_scheme = "bnb" \/ c.pretrained_quant_method = "bnb"
is_gptq_quantized(c) ==
    c.quantization_scheme = "gptq" \/ c.pretrained_quant_method = "gptq"
is_awq_quantized(c) ==
    c.quantization_scheme = "awq" \/ c.pretrained_quant_method = "awq"
\* pretrained_config.quantization_config is a dict (it is read with .get), so the
\* hasattr(..., "exllama_config") disjunct is never true: only the backend's own
\* quantization_config can ask for exllama v2.
is_exllamav2(c) ==
    /\ is_quantized(c)
    /\ (is_gptq_quantized(c) \/ is_awq_quantized(c))
    /\ c.exllama_v2

PT_validate_library ==
    /\ backend = "pytorch" /\ pc = "start"
    /\ IF config.library \in {"timm", "diffusers", "transformers"}
       THEN pc' = "pt_ds_check" /\ UNCHANGED error
       ELSE Fail("ValueError")
    /\ UNCHANGED <<conc, backend, config, toggles, attrs, quantization_config, generation_config,
                   hub_generation, in_features, tmpdir, nwdir, snapshot, handle, loads,
                   inference, lastCall, calls, cudaCache, released, cleans>>

\* Faulty variant: the deepspeed/quantization check is made only after the temporary
\* directory has been created.
PT_check_deepspeed_AfterTmpdir ==
    /\ pc = "pt_ds_check"
    /\ IF config.deepspeed_inference /\ is_quantized(config)
       THEN /\ Fail("ValueError")
            /\ tmpdir' = "exists"
            /\ attrs' = attrs \cup {"tmpdir"}
       ELSE pc' = "pt_quant" /\ UNCHANGED <<error, tmpdir, attrs>>
    /\ UNCHANGED <<conc, backend, config, toggles, quantization_config, generation_config,
                   hub_generation, in_features, nwdir, snapshot, handle, loads,
                   inference, lastCall, calls, cudaCache, released, cleans>>

PT_check_deepspeed ==
    /\ pc = "pt_ds_check"
    /\ IF config.deepspeed_inference /\ is_quantized(config)
       THEN Fail("ValueError")
       ELSE pc' = "pt_quant" /\ UNCHANGED error
    /\ UNCHANGED <<conc, backend, config, toggles, attrs, quantization_config, generation_config,
                   hub_generation, in_features, tmpdir, nwdir, snapshot, handle, loads,
                   inference, lastCall, calls, cudaCache, released, cleans>>

\* The quantization config class that process_quantization_config builds.
QuantizationClass(c) ==
    CASE is_gptq_quantized(c) -> "GPTQConfig"
      [] is_awq_quantized(c) -> "AwqConfig"
      [] is_bnb_quantized(c) -> "BitsAndBytesConfig"
      [] OTHER -> "None"

PT_process_quantization_config ==
    /\ pc = "pt_quant"
    /\ IF ~is_quantized(config)
       THEN pc' = "pt_runtime" /\ UNCHANGED <<error, quantization_config, attrs>>
       ELSE IF QuantizationClass(config) # "None"
            THEN /\ quantization_config' = QuantizationClass(config)
                 /\ attrs' = attrs \cup {"quantization_config"}
                 /\ pc' = "pt_runtime"
                 /\ UNCHANGED error
            ELSE Fail("ValueError") /\ UNCHANGED <<quantization_config, attrs>>
    /\ UNCHANGED <<conc, backend, config, toggles, generation_config,
                   hub_generation, in_features, tmpdir, nwdir, snapshot, handle, loads,
                   inference, lastCall, calls, cudaCache, released, cleans>>

\* Thread counts and autocast: process-wide torch settings.
PT_runtime_settings ==
    /\ pc = "pt_runtime"
    /\ \E autocast \in {"off", "enabled", "enabled_with_dtype"} :
         IF autocast = "enabled_with_dtype" /\ config.device \notin {"cpu", "cuda"}
         THEN Fail("ValueError")
         ELSE pc' = "pt_tmpdir" /\ UNCHANGED error
    /\ UNCHANGED <<conc, backend, config, toggles, attrs, quantization_config, generation_config,
                   hub_generation, in_features, tmpdir, nwdir, snapshot, handle, loads,
                   inference, lastCall, calls, cudaCache, released, cleans>>

PT_create_tmpdir ==
    /\ pc = "pt_tmpdir"
    /\ tmpdir' = "exists"
    /\ attrs' = attrs \cup {"tmpdir"}
    /\ pc' = "pt_select"
    /\ UNCHANGED <<conc, backend, config, toggles, quantization_config, generation_config,
                   hub_generation, in_features, nwdir, snapshot, handle, loads,
                   inference, lastCall, calls, cudaCache, released, cleans, error>>

PT_select_weights ==
    /\ pc = "pt_select"
    /\ IF config.no_weights /\ config.library \in {"diffusers", "timm"}
       THEN Fail("ValueError")
       ELSE /\ pc' = IF config.no_weights THEN "pt_nw_create" ELSE "pt_load"
            /\ UNCHANGED error
    /\ UNCHANGED <<conc, backend, config, toggles, attrs, quantization_config, generation_config,
                   hub_generation, in_features, tmpdir, nwdir, snapshot, handle, loads,
                   inference, lastCall, calls, cudaCache, released, cleans>>

\* Faulty variant: g_idx is added for every quantized model.
PTNoWeightsStateDict_AllQuantized(c, feat) ==
    LinearStateDict \cup
      (IF is_quantized(c) THEN {Tensor(m, "g_idx") : m \in feat} ELSE {})

\* The state dict that create_no_weights_model saves as model.safetensors.
PTNoWeightsStateDict(c, feat) ==
    LinearStateDict \cup
      (IF is_exllamav2(c) THEN {Tensor(m, "g_idx") : m \in feat} ELSE {})

PT_create_no_weights_model ==
    /\ pc = "pt_nw_create"
    /\ \E has_config \in (IF config.pretrained_quant_method = "None" THEN BOOLEAN ELSE {TRUE}) :
       \* has_config: self.pretrained_config is not None
       IF ~has_config
       THEN Fail("ValueError") /\ UNCHANGED <<attrs, nwdir, in_features>>
       ELSE \E feat \in (IF is_quantized(config) THEN SUBSET Modules ELSE {in_features}) :
            \* feat: the modules of the meta model that have in_features
            /\ in_features' = feat
            /\ attrs' = attrs \cup {"no_weights_model"}
            /\ nwdir' = [exists |-> TRUE,
                         tensors |-> PTNoWeightsStateDict(config, feat),
                         has_config |-> TRUE,
                         has_generation |-> FALSE,
                         generation |-> EmptyDir.generation]
            /\ pc' = "pt_nw_load"
            /\ UNCHANGED error
    /\ UNCHANGED <<conc, backend, config, toggles, quantization_config, generation_config,
                   hub_generation, tmpdir, snapshot, handle, loads,
                   inference, lastCall, calls, cudaCache, released, cleans>>

\* What an engine load call is given and what it finds there.
LoadCall(engine, model_id, volumes, meta, device_map, moved) ==
    [engine |-> engine, model_id |-> model_id, volumes |-> volumes,
     source |-> ResolveSource(model_id, volumes),
     tensors |-> IF ResolveSource(model_id, volumes) = "no_weights_model"
                 THEN nwdir.tensors
                 ELSE IF ResolveSource(model_id, volumes) = "hub" THEN FullStateDict ELSE {},
     generation |-> IF ResolveSource(model_id, volumes) = "no_weights_model"
                    THEN nwdir.generation
                    ELSE snapshot.generation,
     has_generation |-> IF ResolveSource(model_id, volumes) = "no_weights_model"
                        THEN nwdir.has_generation
                        ELSE snapshot.has_generation,
     meta |-> meta, device_map |-> device_map, moved |-> moved]

\* load_model_with_no_weights, deepspeed branch: from_pretrained on the meta device,
\* then to_empty(device="cpu") and tie_weights().
PT_load_no_weights_deepspeed ==
    /\ pc = "pt_nw_load"
    /\ config.deepspeed_inference
    /\ loads' = Append(loads, LoadCall("from_pretrained", config.model, "n/a",
                                       TRUE, FALSE, FALSE))
    /\ \E ok \in BOOLEAN :
         IF ok
         THEN /\ handle' = [kind |-> config.library, transforms |-> <<>>]
              /\ attrs' = attrs \cup {"pretrained_model"}
              /\ pc' = "pt_cleanup"
              /\ UNCHANGED error
         ELSE Fail("UpstreamLoadError") /\ UNCHANGED <<handle, attrs>>
    /\ UNCHANGED <<conc, backend, config, toggles, quantization_config, generation_config,
                   hub_generation, in_features, tmpdir, nwdir, snapshot,
                   inference, lastCall, calls, cudaCache, released, cleans>>

\* load_model_with_no_weights, other branch, before the load:
\* original_model, self.config.model = self.config.model, self.no_weights_model
PT_swap_model ==
    /\ pc = "pt_nw_load"
    /\ ~config.deepspeed_inference
    /\ config' = [config EXCEPT !.model = HostNoWeightsPath]
    /\ pc' = "pt_load"
    /\ UNCHANGED <<conc, backend, toggles, attrs, quantization_config, generation_config,
                   hub_generation, in_features, tmpdir, nwdir, snapshot, handle, loads,
                   inference, lastCall, calls, cudaCache, released, cleans, error>>

\* Faulty variant: every model that is not quantized is moved when the device is not
\* cpu, whether or not a device_map is configured.
PTMoves_IgnoresDeviceMap(c, device_map) ==
    c.device # "cpu" /\ (c.library \in {"timm", "diffusers"} \/ ~is_quantized(c))

\* The explicit .to(config.device) of load_model_from_pretrained.
PTMoves(c, device_map) ==
    CASE c.library = "timm" -> c.device # "cpu"
      [] c.library = "diffusers" -> ~device_map /\ c.device # "cpu"
      [] is_quantized(c) -> FALSE
      [] device_map -> FALSE
      [] OTHER -> c.device # "cpu"

\* The device_map argument of the load call (quantized models always get one).
PTDeviceMapArg(c, device_map) ==
    CASE c.library = "timm" -> FALSE
      [] c.library = "diffusers" -> device_map
      [] is_quantized(c) -> TRUE
      [] OTHER -> device_map

PT_load_model_from_pretrained ==
    /\ pc = "pt_load"
    /\ \E device_map \in BOOLEAN, ok \in BOOLEAN :
         /\ toggles' = toggles \cup (IF device_map THEN {"device_map"} ELSE {})
         /\ loads' = Append(loads,
                LoadCall(IF config.library = "timm" THEN "timm_create" ELSE "from_pretrained",
                         config.model, "n/a", FALSE,
                         PTDeviceMapArg(config, device_map),
                         ok /\ PTMoves(config, device_map)))
         /\ IF ok
            THEN /\ handle' = [kind |-> config.library, transforms |-> <<>>]
                 /\ attrs' = attrs \cup {"pretrained_model"}
                 /\ pc' = IF config.no_weights THEN "pt_nw_restore" ELSE "pt_cleanup"
                 /\ UNCHANGED error
            ELSE Fail("UpstreamLoadError") /\ UNCHANGED <<handle, attrs>>
    /\ UNCHANGED <<conc, backend, config, quantization_config, generation_config,
                   hub_generation, in_features, tmpdir, nwdir, snapshot,
                   inference, lastCall, calls, cudaCache, released, cleans>>

\* Faulty variant: the pretrained load is not in an else branch and runs as well.
PTAfterNoWeights_FallThrough == "pt_load"

\* Where the constructor goes on after load_model_with_no_weights has returned.
PTAfterNoWeights == "pt_cleanup"

\* self.config.model = original_model
PT_restore_model ==
    /\ pc = "pt_nw_restore"
    /\ config' = [config EXCEPT !.model = OrigModel]
    /\ pc' = PTAfterNoWeights
    /\ UNCHANGED <<conc, backend, toggles, attrs, quantization_config, generation_config,
                   hub_generation, in_features, tmpdir, nwdir, snapshot, handle, loads,
                   inference, lastCall, calls, cudaCache, released, cleans, error>>

\* self.tmpdir.cleanup() of the constructor
PT_tmpdir_cleanup ==
    /\ pc = "pt_cleanup"
    /\ tmpdir' = TmpdirAfterCleanup(tmpdir)
    /\ nwdir' = NwdirAfterCleanup(tmpdir, nwdir)
    /\ pc' = "pt_cache_impl"
    /\ UNCHANGED <<conc, backend, config, toggles, attrs, quantization_config, generation_config,
                   hub_generation, in_features, snapshot, handle, loads,
                   inference, lastCall, calls, cudaCache, released, cleans, error>>

\* Faulty variant: the step is applied whether or not its toggle is set.
Transform_Ungated(at, toggle, set, applies, next) ==
    /\ pc = at
    /\ toggles' = toggles \cup (IF set THEN {toggle} ELSE {})
    /\ handle' = IF applies
                 THEN [handle EXCEPT !.transforms = Append(@, toggle)]
                 ELSE handle
    /\ pc' = next

\* One optional step of the constructor: when the toggle is set, the transformation
\* is applied to the model.
Transform(at, toggle, set, applies, next) ==
    /\ pc = at
    /\ toggles' = toggles \cup (IF set THEN {toggle} ELSE {})
    /\ handle' = IF set /\ applies
                 THEN [handle EXCEPT !.transforms = Append(@, toggle)]
                 ELSE handle
    /\ pc' = next

PT_cache_implementation ==
    /\ \E set \in BOOLEAN : Transform("pt_cache_impl", "cache_implementation", set, TRUE, "pt_eval")
    /\ UNCHANGED <<conc, backend, config, attrs, quantization_config, generation_config,
                   hub_generation, in_features, tmpdir, nwdir, snapshot, loads,
                   inference, lastCall, calls, cudaCache, released, cleans, error>>

PT_eval_mode ==
    /\ \E set \in BOOLEAN :
         Transform("pt_eval", "eval_mode", set, config.library # "diffusers", "pt_bt")
    /\ UNCHANGED <<conc, backend, config, attrs, quantization_config, generation_config,
                   hub_generation, in_features, tmpdir, nwdir, snapshot, loads,
                   inference, lastCall, calls, cudaCache, released, cleans, error>>

PT_bettertransformer ==
    /\ \E set \in BOOLEAN : Transform("pt_bt", "to_bettertransformer", set, TRUE, "pt_peft")
    /\ UNCHANGED <<conc, backend, config, attrs, quantization_config, generation_config,
                   hub_generation, in_features, tmpdir, nwdir, snapshot, loads,
                   inference, lastCall, calls, cudaCache, released, cleans, error>>

PT_peft ==
    /\ \E set \in BOOLEAN : Transform("pt_peft", "peft_type", set, TRUE, "pt_compile")
    /\ UNCHANGED <<conc, backend, config, attrs, quantization_config, generation_config,
                   hub_generation, in_features, tmpdir, nwdir, snapshot, loads,
                   inference, lastCall, calls, cudaCache, released, cleans, error>>

\* The methods the object behind self.pretrained_model has: a TGI client generates,
\* a TEI client encodes, a transformers model has forward and generate, a timm model
\* has forward, a diffusers pipeline is only callable.
HandleOffers(kind, method) ==
    \/ kind = "TGI" /\ method = "generate"
    \/ kind = "TEI" /\ method = "encode"
    \/ kind = "transformers" /\ method \in {"forward", "generate"}
    \/ kind = "timm" /\ method = "forward"

\* The generate call that follows torch.compile of a non-diffusers model: its inputs
\* are built on device 'cuda:0' (an error without CUDA), then
\* self.pretrained_model.generate(**inputs, **generate_kwargs) is called, which the
\* engine receives if the model has a generate method.
CompileProbe(c, kind, cuda_available) ==
    CASE c.library = "diffusers" -> "none"
      [] ~cuda_available -> "RuntimeError"
      [] ~HandleOffers(kind, "generate") -> "AttributeError"
      [] OTHER -> "engine"

\* torch.compile, and for non-diffusers models the generate call of the constructor.
PT_torch_compile ==
    /\ \E set \in BOOLEAN,
          cuda_available \in (IF config.device = "cuda" THEN {TRUE} ELSE BOOLEAN) :
         IF set /\ CompileProbe(config, handle.kind, cuda_available)
                      \in {"RuntimeError", "AttributeError"}
         THEN /\ pc = "pt_compile"
              /\ toggles' = toggles \cup {"torch_compile"}
              /\ handle' = [handle EXCEPT !.transforms = Append(@, "torch_compile")]
              /\ Fail(CompileProbe(config, handle.kind, cuda_available))
              /\ UNCHANGED inference
         ELSE /\ Transform("pt_compile", "torch_compile", set, TRUE, "pt_deepspeed")
              /\ inference' =
                    IF set /\ CompileProbe(config, handle.kind, cuda_available) = "engine"
                    THEN [inference EXCEPT !.construct = @ + 1]
                    ELSE inference
              /\ UNCHANGED error
    /\ UNCHANGED <<conc, backend, config, attrs, quantization_config, generation_config,
                   hub_generation, in_features, tmpdir, nwdir, snapshot, loads,
                   lastCall, calls, cudaCache, released, cleans>>

PT_deepspeed ==
    /\ Transform("pt_deepspeed", "deepspeed_inference", config.deepspeed_inference, TRUE, "ready")
    /\ UNCHANGED <<conc, backend, config, attrs, quantization_config, generation_config,
                   hub_generation, in_features, tmpdir, nwdir, snapshot, loads,
                   inference, lastCall, calls, cudaCache, released, cleans, error>>

\* forward / prefill / generate: self.pretrained_model.<method>(...), with no look at
\* the task.
PTCall(op, method) ==
    /\ backend = "pytorch" /\ pc = "ready" /\ calls < MaxCalls
    /\ calls' = calls + 1
    /\ IF "pretrained_model" \in attrs /\ HandleOffers(handle.kind, method)
       THEN /\ inference' = [inference EXCEPT !.use = @ + 1]
            /\ lastCall' = [op |-> op, outcome |-> "engine"]
       ELSE /\ lastCall' = [op |-> op, outcome |-> "AttributeError"]
            /\ UNCHANGED inference
    /\ UNCHANGED <<conc, backend, config, toggles, pc, attrs, quantization_config,
                   generation_config, hub_generation, in_features, tmpdir, nwdir, snapshot,
                   handle, loads, cudaCache, released, cleans, error>>

PT_forward == PTCall("forward", "forward")
PT_prefill == PTCall("prefill", "generate")
PT_generate == PTCall("generate", "generate")

\* torch.cuda.empty_cache(): hands the cached blocks, if any, back to the device.
CacheReleases(cached) == IF cached THEN 1 ELSE 0

\* Faulty variant: the del is not guarded by hasattr.
PTDeletesModel_Unguarded(a) == TRUE

\* Whether clean() goes on to delete self.pretrained_model: hasattr guards the del.
PTDeletesModel(a) == "pretrained_model" \in a

PT_clean ==
    /\ backend = "pytorch" /\ pc \in {"ready", "failed"} /\ cleans < MaxCleans
    /\ LET has_tmp == CleansTmpdir(attrs)
           has_model == PTDeletesModel(attrs)
           \* del of an attribute that is not there raises AttributeError
           missing == has_model /\ "pretrained_model" \notin attrs
           \* deleting a model that lives on the accelerator leaves its blocks cached
           cached == cudaCache \/ (has_model /\ ~missing /\ config.device = "cuda")
           empties == ~missing /\ config.device = "cuda"
       IN  /\ tmpdir' = IF has_tmp THEN TmpdirAfterCleanup(tmpdir) ELSE tmpdir
           /\ nwdir' = IF has_tmp THEN NwdirAfterCleanup(tmpdir, nwdir) ELSE nwdir
           /\ attrs' = attrs \ (IF has_model THEN {"pretrained_model"} ELSE {})
           /\ handle' = IF has_model /\ ~missing THEN NoHandle ELSE handle
           /\ cudaCache' = IF empties THEN FALSE ELSE cached
           /\ released' =
                [model |-> released.model + (IF has_model /\ ~missing THEN 1 ELSE 0),
                 tmpdir |-> released.tmpdir + (IF has_tmp /\ tmpdir = "exists" THEN 1 ELSE 0),
                 cache |-> released.cache + (IF empties THEN CacheReleases(cached) ELSE 0)]
           /\ lastCall' = [op |-> "clean",
                           outcome |-> IF missing THEN "AttributeError" ELSE "ok"]
    /\ cleans' = cleans + 1
    /\ UNCHANGED <<conc, backend, config, toggles, pc, quantization_config, generation_config,
                   hub_generation, in_features, snapshot, loads, inference, calls, error>>

\* -------------------------------------------------------------- PyTXIBackend
TXI_create_tmpdir ==
    /\ backend = "py_txi" /\ pc = "start"
    /\ tmpdir' = "exists"
    /\ attrs' = attrs \cup {"tmpdir", "volume"}
    /\ pc' = IF config.no_weights THEN "txi_nw_write" ELSE "txi_download"
    /\ UNCHANGED <<conc, backend, config, toggles, quantization_config, generation_config,
                   hub_generation, in_features, nwdir, snapshot, handle, loads,
                   inference, lastCall, calls, cudaCache, released, cleans, error>>

\* download_pretrained_model: from_pretrained on the meta device with the volume as
\* cache_dir, which fills the hub cache of the volume.
TXI_download_pretrained_model ==
    /\ pc = "txi_download"
    /\ loads' = Append(loads, LoadCall("download", config.model, "n/a", TRUE, FALSE, FALSE))
    /\ \E ok \in BOOLEAN :
         IF ok
         THEN /\ snapshot' = [exists |-> TRUE,
                              has_generation |-> config.task \in TEXT_GENERATION_TASKS,
                              generation |-> hub_generation]
              /\ pc' = IF config.task \in TEXT_GENERATION_TASKS
                       THEN "txi_prepare_generation" ELSE "txi_load"
              /\ UNCHANGED error
         ELSE Fail("UpstreamLoadError") /\ UNCHANGED snapshot
    /\ UNCHANGED <<conc, backend, config, toggles, attrs, quantization_config, generation_config,
                   hub_generation, in_features, tmpdir, nwdir, handle,
                   inference, lastCall, calls, cudaCache, released, cleans>>

\* Faulty variant: the padding token is left as shipped.
PatchGenerationConfig_NoPad(g) ==
    [g EXCEPT !.eos_token_id = -100, !.temperature = 100, !.top_p = 100, !.top_k = 50]

\* The settings the generation patch forces.
PatchGenerationConfig(g) ==
    [g EXCEPT !.eos_token_id = -100, !.pad_token_id = -100,
              !.temperature = 100, !.top_p = 100, !.top_k = 50]

TXI_prepare_generation_config ==
    /\ pc = "txi_prepare_generation"
    /\ generation_config' = PatchGenerationConfig(generation_config)
    /\ snapshot' = [snapshot EXCEPT !.has_generation = TRUE,
                                    !.generation = PatchGenerationConfig(generation_config)]
    /\ pc' = "txi_load"
    /\ UNCHANGED <<conc, backend, config, toggles, attrs, quantization_config,
                   hub_generation, in_features, tmpdir, nwdir, handle, loads,
                   inference, lastCall, calls, cudaCache, released, cleans, error>>

\* create_no_weights_model, first part: the directory, model.safetensors with the
\* state dict of a Linear(1, 1), the pretrained config and the processor.
TXI_write_checkpoint ==
    /\ pc = "txi_nw_write"
    /\ attrs' = attrs \cup {"no_weights_model"}
    /\ nwdir' = [exists |-> TRUE, tensors |-> LinearStateDict, has_config |-> TRUE,
                 has_generation |-> FALSE, generation |-> EmptyDir.generation]
    /\ pc' = "txi_nw_materialize"
    /\ UNCHANGED <<conc, backend, config, toggles, quantization_config, generation_config,
                   hub_generation, in_features, tmpdir, snapshot, handle, loads,
                   inference, lastCall, calls, cudaCache, released, cleans, error>>

\* What self.pretrained_model.save_pretrained leaves in the directory: the weights
\* of the whole randomly initialised model, and its own generation config.
SavePretrainedModel(d, task, own_generation) ==
    [d EXCEPT !.tensors = FullStateDict,
              !.has_generation = task \in TEXT_GENERATION_TASKS,
              !.generation = IF task \in TEXT_GENERATION_TASKS
                             THEN own_generation ELSE d.generation]

\* create_no_weights_model, second part: from_pretrained(self.no_weights_model) under
\* random_init_weights, save_pretrained, del self.pretrained_model, empty_cache.
\* The attribute is set and deleted, and the cache filled and emptied, within the
\* step; a from_pretrained that raises leaves the directory as it was.
TXI_materialize_model ==
    /\ pc = "txi_nw_materialize"
    /\ loads' = Append(loads, LoadCall("from_pretrained", HostNoWeightsPath, "n/a",
                                       FALSE, TRUE, FALSE))
    /\ \E ok \in BOOLEAN :
         IF ok
         THEN /\ nwdir' = SavePretrainedModel(nwdir, config.task, hub_generation)
              /\ pc' = "txi_nw_generation"
              /\ UNCHANGED error
         ELSE Fail("UpstreamLoadError") /\ UNCHANGED nwdir
    /\ UNCHANGED <<conc, backend, config, toggles, attrs, quantization_config, generation_config,
                   hub_generation, in_features, tmpdir, snapshot, handle,
                   inference, lastCall, calls, cudaCache, released, cleans>>

\* create_no_weights_model, last part: the generation config, for generation tasks.
TXI_save_generation_config ==
    /\ pc = "txi_nw_generation"
    /\ IF config.task \in TEXT_GENERATION_TASKS
       THEN /\ generation_config' = PatchGenerationConfig(generation_config)
            /\ nwdir' = [nwdir EXCEPT !.has_generation = TRUE,
                                      !.generation = PatchGenerationConfig(generation_config)]
       ELSE UNCHANGED <<generation_config, nwdir>>
    /\ pc' = "txi_swap"
    /\ UNCHANGED <<conc, backend, config, toggles, attrs, quantization_config,
                   hub_generation, in_features, tmpdir, snapshot, handle, loads,
                   inference, lastCall, calls, cudaCache, released, cleans, error>>

\* original_volumes, self.config.volumes = self.config.volumes, {tmpdir: /data}
\* original_model, self.config.model = self.config.model, "/data/no_weights_model"
TXI_swap_config ==
    /\ pc = "txi_swap"
    /\ config' = [config EXCEPT !.volumes = TmpVolumes, !.model = TXINoWeightsPath]
    /\ pc' = "txi_load"
    /\ UNCHANGED <<conc, backend, toggles, attrs, quantization_config, generation_config,
                   hub_generation, in_features, tmpdir, nwdir, snapshot, handle, loads,
                   inference, lastCall, calls, cudaCache, released, cleans, error>>

\* Faulty variant: any task that is not a generation task gets the embedding server.
ServerFor_Fallback(task) ==
    IF task \in TEXT_GENERATION_TASKS THEN "TGI" ELSE "TEI"

\* The server class load_model_from_pretrained launches for a task.
ServerFor(task) ==
    CASE task \in TEXT_GENERATION_TASKS -> "TGI"
      [] task \in TEXT_EMBEDDING_TASKS -> "TEI"
      [] OTHER -> "none"

\* Where the constructor goes on after load_model_from_pretrained has returned.
TXIAfterLoad(c) == IF c.no_weights THEN "txi_restore" ELSE "txi_cleanup"

TXI_load_model_from_pretrained ==
    /\ pc = "txi_load"
    /\ IF ServerFor(config.task) = "none"
       THEN Fail("NotImplementedError") /\ UNCHANGED <<loads, handle, attrs>>
       ELSE /\ loads' = Append(loads, LoadCall(ServerFor(config.task), config.model,
                                               config.volumes, FALSE, FALSE, FALSE))
            /\ \E ok \in BOOLEAN :
                 IF ok
                 THEN /\ handle' = [kind |-> ServerFor(config.task), transforms |-> <<>>]
                      /\ attrs' = attrs \cup {"pretrained_model"}
                      /\ pc' = TXIAfterLoad(config)
                      /\ UNCHANGED error
                 ELSE Fail("UpstreamLoadError") /\ UNCHANGED <<handle, attrs>>
    /\ UNCHANGED <<conc, backend, config, toggles, quantization_config, generation_config,
                   hub_generation, in_features, tmpdir, nwdir, snapshot,
                   inference, lastCall, calls, cudaCache, released, cleans>>

\* Faulty variant: only the model identifier is put back.
RestoredConfig_ModelOnly(c) == [c EXCEPT !.model = OrigModel]

\* self.config.model, self.config.volumes = original_model, original_volumes
RestoredConfig(c) == [c EXCEPT !.volumes = OrigVolumes, !.model = OrigModel]

TXI_restore_config ==
    /\ pc = "txi_restore"
    /\ config' = RestoredConfig(config)
    /\ pc' = "txi_cleanup"
    /\ UNCHANGED <<conc, backend, toggles, attrs, quantization_config, generation_config,
                   hub_generation, in_features, tmpdir, nwdir, snapshot, handle, loads,
                   inference, lastCall, calls, cudaCache, released, cleans, error>>

TXI_tmpdir_cleanup ==
    /\ pc = "txi_cleanup"
    /\ tmpdir' = TmpdirAfterCleanup(tmpdir)
    /\ nwdir' = NwdirAfterCleanup(tmpdir, nwdir)
    /\ pc' = "ready"
    /\ UNCHANGED <<conc, backend, config, toggles, attrs, quantization_config, generation_config,
                   hub_generation, in_features, snapshot, handle, loads,
                   inference, lastCall, calls, cudaCache, released, cleans, error>>

\* The request shape prepare_inputs builds, or the error it raises.
PrepareInputsOutcome(task) ==
    CASE task \in TEXT_GENERATION_TASKS -> "prompt"
      [] task \in TEXT_EMBEDDING_TASKS -> "text"
      [] OTHER -> "NotImplementedError"

TXI_prepare_inputs ==
    /\ backend = "py_txi" /\ pc = "ready" /\ calls < MaxCalls
    /\ calls' = calls + 1
    /\ lastCall' = [op |-> "prepare_inputs", outcome |-> PrepareInputsOutcome(config.task)]
    /\ UNCHANGED <<conc, backend, config, toggles, pc, attrs, quantization_config,
                   generation_config, hub_generation, in_features, tmpdir, nwdir, snapshot,
                   handle, loads, inference, cudaCache, released, cleans, error>>

\* forward / prefill / generate: self.pretrained_model.<method>(...), with no look
\* at the task.
TXICall(op, method) ==
    /\ backend = "py_txi" /\ pc = "ready" /\ calls < MaxCalls
    /\ calls' = calls + 1
    /\ IF "pretrained_model" \in attrs /\ HandleOffers(handle.kind, method)
       THEN /\ inference' = [inference EXCEPT !.use = @ + 1]
            /\ lastCall' = [op |-> op, outcome |-> "engine"]
       ELSE /\ lastCall' = [op |-> op, outcome |-> "AttributeError"]
            /\ UNCHANGED inference
    /\ UNCHANGED <<conc, backend, config, toggles, pc, attrs, quantization_config,
                   generation_config, hub_generation, in_features, tmpdir, nwdir, snapshot,
                   handle, loads, cudaCache, released, cleans, error>>

TXI_forward == TXICall("forward", "encode")
TXI_prefill == TXICall("prefill", "generate")
TXI_generate == TXICall("generate", "generate")

\* Backend.clean of the base class: drops self.pretrained_model if it is there.
BaseCleanDeletes(a) == "pretrained_model" \in a

TXI_clean ==
    /\ backend = "py_txi" /\ pc \in {"ready", "failed"} /\ cleans < MaxCleans
    /\ LET has_model == BaseCleanDeletes(attrs)
           has_tmp == CleansTmpdir(attrs)
       IN  /\ attrs' = attrs \ (IF has_model THEN {"pretrained_model"} ELSE {})
           /\ handle' = IF has_model THEN NoHandle ELSE handle
           /\ tmpdir' = IF has_tmp THEN TmpdirAfterCleanup(tmpdir) ELSE tmpdir
           /\ nwdir' = IF has_tmp THEN NwdirAfterCleanup(tmpdir, nwdir) ELSE nwdir
           /\ released' =
                [released EXCEPT
                   !.model = @ + (IF has_model THEN 1 ELSE 0),
                   !.tmpdir = @ + (IF has_tmp /\ tmpdir = "exists" THEN 1 ELSE 0)]
           /\ lastCall' = [op |-> "clean", outcome |-> "ok"]
    /\ cleans' = cleans + 1
    /\ UNCHANGED <<conc, backend, config, toggles, pc, quantization_config, generation_config,
                   hub_generation, in_features, snapshot, loads, inference, calls,
                   cudaCache, error>>

\* ------------------------------------------------------------- specification
BaseConfig ==
    [model |-> OrigModel, volumes |-> OrigVolumes, no_weights |-> FALSE,
     library |-> "transformers", task |-> "text-generation",
     deepspeed_inference |-> FALSE, quantization_scheme |-> "None",
     pretrained_quant_method |-> "None", exllama_v2 |-> FALSE, device |-> "cpu"]

PyTorchConfigs ==
    { [BaseConfig EXCEPT !.no_weights = nw, !.library = lib, !.task = task,
                         !.deepspeed_inference = ds, !.quantization_scheme = q,
                         !.pretrained_quant_method = pq, !.exllama_v2 = ex, !.device = dev] :
        nw \in BOOLEAN, lib \in Libraries, task \in Tasks, ds \in BOOLEAN, q \in Schemes,
        pq \in {"None", "gptq"}, ex \in BOOLEAN, dev \in Devices }

PyTXIConfigs ==
    { [BaseConfig EXCEPT !.no_weights = nw, !.task = task, !.device = dev] :
        nw \in BOOLEAN, task \in Tasks, dev \in {"cpu", "cuda"} }

\* The statements of PyTorchBackend.__init__ in source order.
PTOrder == <<"start", "pt_ds_check", "pt_quant", "pt_runtime", "pt_tmpdir", "pt_select",
             "pt_nw_create", "pt_nw_load", "pt_load", "pt_nw_restore", "pt_cleanup",
             "pt_cache_impl", "pt_eval", "pt_bt", "pt_peft", "pt_compile",
             "pt_deepspeed", "ready">>
PTIndex == [p \in {PTOrder[i] : i \in 1..Len(PTOrder)} |->
              CHOOSE i \in 1..Len(PTOrder) : PTOrder[i] = p]
PTPosition(p) == IF p = "failed" THEN Len(PTOrder) + 1 ELSE PTIndex[p]

\* The model transformations of the constructor, by the toggle that asks for each,
\* in source order.
TransformOrder == <<"eval_mode", "to_bettertransformer", "peft_type", "torch_compile",
                    "deepspeed_inference">>
Transformations == {TransformOrder[i] : i \in 1..Len(TransformOrder)}
IsTransformation(t) == t \in Transformations
TransformIndexOf == [t \in Transformations |->
                       CHOOSE i \in 1..Len(TransformOrder) : TransformOrder[i] = t]
TransformIndex(t) == TransformIndexOf[t]
\* Whether the step of toggle t runs: its toggle is set and, for eval mode, the
\* model is not a diffusers pipeline.
StepEnabled(t) == t \in toggles /\ (t = "eval_mode" => config.library # "diffusers")

\* The two threads that may construct a PyTXIBackend at the same time.
Instances == {1, 2}
\* {self.tmpdir.name: {"bind": "/data", "mode": "rw"}} of instance i
TmpVolumesOf(i) == IF i = 1 THEN "tmpdir_1_as_data" ELSE "tmpdir_2_as_data"
NoLaunch == [model_id |-> "none", volumes |-> "none"]
\* No other thread constructs a backend.
Alone == [shared |-> FALSE,
          cfg |-> [i \in Instances |-> [model |-> OrigModel, volumes |-> OrigVolumes]],
          inst |-> [i \in Instances |->
                      [pc |-> "absent", original_model |-> "unset",
                       original_volumes |-> "unset", launched |-> NoLaunch]]]

\* The state of a backend object before its constructor has run.
Fresh ==
    /\ generation_config = hub_generation
    /\ toggles = {}
    /\ pc = "start"
    /\ attrs = {}
    /\ quantization_config = "None"
    /\ in_features = {}
    /\ tmpdir = "none"
    /\ nwdir = EmptyDir
    /\ snapshot = [exists |-> FALSE, has_generation |-> FALSE,
                   generation |-> EmptyDir.generation]
    /\ handle = NoHandle
    /\ loads = <<>>
    /\ inference = [construct |-> 0, use |-> 0]
    /\ lastCall = NoCall
    /\ calls = 0
    /\ cudaCache = FALSE
    /\ released = [model |-> 0, tmpdir |-> 0, cache |-> 0]
    /\ cleans = 0
    /\ error = "none"

Init ==
    /\ backend \in Backends
    /\ config \in (IF backend = "pytorch"
                   THEN {c \in PyTorchConfigs :
                           /\ c.task \in LibraryTasks(c.library)
                           /\ c.exllama_v2 => is_quantized(c)
                           /\ c.pretrained_quant_method # "None" =>
                                c.quantization_scheme \in {"None", c.pretrained_quant_method}}
                   ELSE PyTXIConfigs)
    /\ hub_generation \in (IF backend = "py_txi" THEN HubGenerationConfigs
                            ELSE {GenCfg(2, 0, 70, 90, 40)})
    /\ Fresh
    /\ conc = Alone

Next ==
    \/ PT_validate_library \/ PT_check_deepspeed \/ PT_process_quantization_config
    \/ PT_runtime_settings \/ PT_create_tmpdir \/ PT_select_weights
    \/ PT_create_no_weights_model \/ PT_load_no_weights_deepspeed \/ PT_swap_model
    \/ PT_load_model_from_pretrained \/ PT_restore_model \/ PT_tmpdir_cleanup
    \/ PT_cache_implementation \/ PT_eval_mode \/ PT_bettertransformer \/ PT_peft
    \/ PT_torch_compile \/ PT_deepspeed
    \/ PT_forward \/ PT_prefill \/ PT_generate \/ PT_clean
    \/ TXI_create_tmpdir \/ TXI_download_pretrained_model \/ TXI_prepare_generation_config
    \/ TXI_write_checkpoint \/ TXI_materialize_model \/ TXI_save_generation_config
    \/ TXI_swap_config \/ TXI_load_model_from_pretrained \/ TXI_restore_config
    \/ TXI_tmpdir_cleanup
    \/ TXI_prepare_inputs \/ TXI_forward \/ TXI_prefill \/ TXI_generate \/ TXI_clean

Spec == Init /\ [][Next]_vars

\* ------------------------------------------------------------ concurrent PyTXIBackend
\* Two threads each construct a PyTXIBackend with no_weights=true, either over one
\* config object or over a copy each. A thread can be preempted between any two
\* reads or writes of the config's attributes.
instanceVars == <<backend, config, toggles, pc, attrs, quantization_config,
                  generation_config, hub_generation, in_features, tmpdir, nwdir, snapshot,
                  handle, loads, inference, lastCall, calls, cudaCache, released, cleans,
                  error>>

\* The config object behind self.config of instance i: the one object the caller
\* passed to both constructors, or the copy passed to this one.
ConfigOf(i) == IF conc.shared THEN 1 ELSE i

\* Instance i is at statement `from`; the step touches no other thread's backend.
ConcStep(i, from) ==
    /\ conc.inst[i].pc = from
    /\ UNCHANGED instanceVars

\* self.tmpdir = TemporaryDirectory(); create_no_weights_model() in that directory
Conc_create_no_weights_model(i) ==
    /\ ConcStep(i, "start")
    /\ conc' = [conc EXCEPT !.inst[i].pc = "read_volumes"]

\* original_volumes, self.config.volumes = self.config.volumes, {tmpdir: /data}
\* (the right-hand side is evaluated first)
Conc_read_volumes(i) ==
    /\ ConcStep(i, "read_volumes")
    /\ conc' = [conc EXCEPT !.inst[i].pc = "write_volumes",
                            !.inst[i].original_volumes = conc.cfg[ConfigOf(i)].volumes]

Conc_write_volumes(i) ==
    /\ ConcStep(i, "write_volumes")
    /\ conc' = [conc EXCEPT !.inst[i].pc = "read_model",
                            !.cfg[ConfigOf(i)].volumes = TmpVolumesOf(i)]

\* original_model, self.config.model = self.config.model, "/data/no_weights_model"
Conc_read_model(i) ==
    /\ ConcStep(i, "read_model")
    /\ conc' = [conc EXCEPT !.inst[i].pc = "write_model",
                            !.inst[i].original_model = conc.cfg[ConfigOf(i)].model]

Conc_write_model(i) ==
    /\ ConcStep(i, "write_model")
    /\ conc' = [conc EXCEPT !.inst[i].pc = "read_model_id",
                            !.cfg[ConfigOf(i)].model = TXINoWeightsPath]

\* load_model_from_pretrained: the task test, then model_id=self.config.model
Conc_read_model_id(i) ==
    /\ ConcStep(i, "read_model_id")
    /\ IF ServerFor(config.task) = "none"
       THEN conc' = [conc EXCEPT !.inst[i].pc = "failed"]
       ELSE conc' = [conc EXCEPT !.inst[i].pc = "launch",
                                 !.inst[i].launched.model_id = conc.cfg[ConfigOf(i)].model]

\* volumes=self.config.volumes, and the server is launched; an error of the launch
\* leaves load_model_with_no_weights at once.
Conc_launch(i) ==
    /\ ConcStep(i, "launch")
    /\ \E ok \in BOOLEAN :
         conc' = [conc EXCEPT !.inst[i].pc = IF ok THEN "restore_model" ELSE "failed",
                              !.inst[i].launched.volumes = conc.cfg[ConfigOf(i)].volumes]

\* self.config.model, self.config.volumes = original_model, original_volumes
\* (the targets are assigned from left to right)
Conc_restore_model(i) ==
    /\ ConcStep(i, "restore_model")
    /\ conc' = [conc EXCEPT !.inst[i].pc = "restore_volumes",
                            !.cfg[ConfigOf(i)].model = conc.inst[i].original_model]

\* Faulty variant: config.volumes is not put back.
Conc_restore_volumes_Skipped(i) ==
    /\ ConcStep(i, "restore_volumes")
    /\ conc' = [conc EXCEPT !.inst[i].pc = "done"]

Conc_restore_volumes(i) ==
    /\ ConcStep(i, "restore_volumes")
    /\ conc' = [conc EXCEPT !.inst[i].pc = "done",
                            !.cfg[ConfigOf(i)].volumes = conc.inst[i].original_volumes]

InitConcurrent ==
    /\ backend = "py_txi"
    /\ config \in {c \in PyTXIConfigs : c.no_weights}
    /\ hub_generation = GenCfg(2, 0, 70, 90, 40)
    /\ Fresh
    /\ conc \in {[shared |-> sh, cfg |-> Alone.cfg,
                  inst |-> [i \in Instances |-> [Alone.inst[i] EXCEPT !.pc = "start"]]] :
                 sh \in BOOLEAN}

NextConcurrent ==
    \/ \E i \in Instances : Conc_create_no_weights_model(i)
    \/ \E i \in Instances : Conc_read_volumes(i)
    \/ \E i \in Instances : Conc_write_volumes(i)
    \/ \E i \in Instances : Conc_read_model(i)
    \/ \E i \in Instances : Conc_write_model(i)
    \/ \E i \in Instances : Conc_read_model_id(i)
    \/ \E i \in Instances : Conc_launch(i)
    \/ \E i \in Instances : Conc_restore_model(i)
    \/ \E i \in Instances : Conc_restore_volumes(i)

SpecConcurrent == InitConcurrent /\ [][NextConcurrent]_vars

\* ------------------------------------------------------------------- claims
Loads == {loads[i] : i \in DOMAIN loads}
RealLoaded == \E l \in Loads : l.source = "hub"
SynthLoaded == \E l \in Loads : l.source = "no_weights_model"
SupportedTask == config.task \in TEXT_GENERATION_TASKS \cup TEXT_EMBEDDING_TASKS
ConfigIsOriginal == config.model = OrigModel /\ config.volumes = OrigVolumes
Patched(g) == /\ g.eos_token_id = -100 /\ g.pad_token_id = -100
              /\ g.temperature = 100 /\ g.top_p = 100

\* C1 as stated: in every construction that has ended, successfully or not, exactly
\* one of the two weight sources was loaded (real weights from the configured
\* identifier, or the synthesized no-weights model): never both, never neither.
C1_ExactlyOnePerConstruction ==
    pc \in {"ready", "failed"} => (RealLoaded # SynthLoaded)

\* C1 amended: no construction loads from both weight sources, and every
\* construction that completes successfully has loaded from exactly one of them.
C1_ExactlyOneWhenReady ==
    /\ ~(RealLoaded /\ SynthLoaded)
    /\ pc = "ready" => (RealLoaded \/ SynthLoaded)

C1_Witness ==
    pc = "ready" /\ config.no_weights /\ SynthLoaded /\ ~RealLoaded

\* C2: clean() is idempotent on both backends: no call of clean() raises, and over
\* all calls the model handle, the temporary directory and the accelerator cache are
\* each released at most once.
C2_CleanIdempotent ==
    /\ lastCall.op = "clean" => lastCall.outcome = "ok"
    /\ released.model <= 1
    /\ released.tmpdir <= 1
    /\ released.cache <= 1

C2_Witness ==
    /\ cleans >= 2 /\ lastCall.op = "clean"
    /\ released.model = 1 /\ released.cache = 1

\* C3: after a successful construction with no_weights, config.model and
\* config.volumes have their original values; while the construction runs, the
\* substituted values are visible only between the swap and the restore that
\* bracket the load call.
C3_ConfigRestored ==
    /\ (pc = "ready" /\ config.no_weights) => ConfigIsOriginal
    /\ (~ConfigIsOriginal /\ pc # "failed") =>
          pc \in {"pt_load", "pt_nw_restore", "txi_load", "txi_restore"}

C3_Witness ==
    /\ pc = "ready" /\ config.no_weights /\ ConfigIsOriginal
    /\ \E l \in Loads : l.model_id = TXINoWeightsPath /\ l.volumes = TmpVolumes

\* C4 as stated: on every exit path of PyTXIBackend's server launch, a launch that
\* raises included, config.model and config.volumes are back at their original
\* values.
C4_SwapExceptionSafe ==
    (backend = "py_txi" /\ pc \in {"ready", "failed"}) => ConfigIsOriginal

\* C5: once clean() has returned, the temporary directory and the no_weights_model
\* directory in it are not on disk, also after a construction that failed mid-load;
\* after a successful construction they are gone when the constructor returns.
C5_NoTmpdirLeft ==
    (cleans >= 1 \/ pc = "ready") => (tmpdir # "exists" /\ ~nwdir.exists)

C5_Witness ==
    /\ pc = "failed" /\ error = "UpstreamLoadError" /\ cleans >= 1
    /\ released.tmpdir = 1 /\ tmpdir = "removed"

\* C6 as stated: in PyTXIBackend a task that is neither a generation nor an
\* embedding task does not make construction fail with the unsupported-operation
\* error.
C6_UnsupportedTaskConstructs ==
    (backend = "py_txi" /\ ~SupportedTask) => error # "NotImplementedError"

\* C6 amended: in PyTXIBackend a task that is neither a generation nor an embedding
\* task makes construction fail: the backend never becomes ready, no server is
\* launched, and once the weights are prepared the construction ends with the
\* unsupported-operation error of load_model_from_pretrained.
C6_UnsupportedTaskFailsConstruction ==
    (backend = "py_txi" /\ ~SupportedTask) =>
       /\ pc # "ready"
       /\ \A l \in Loads : l.engine \notin {"TGI", "TEI"}
       /\ (pc = "failed" /\ (snapshot.exists \/ config.model = TXINoWeightsPath)) =>
             error = "NotImplementedError"
       /\ pc \notin {"txi_restore", "txi_cleanup"}

C6_Witness ==
    /\ backend = "py_txi" /\ ~SupportedTask
    /\ pc = "failed" /\ error = "NotImplementedError"

\* The task kinds an operation handles: forward encodes (embedding) on PyTXI and is
\* the model's forward on PyTorch; prefill and generate generate text.
OpHandles(b, op, task) ==
    IF op = "forward"
    THEN b = "pytorch" \/ task \in TEXT_EMBEDDING_TASKS
    ELSE task \in TEXT_GENERATION_TASKS

\* C7 as stated: forward, prefill or generate on a backend whose task kind the
\* operation does not handle raises the unsupported-operation error, and no request
\* reaches the engine.
C7_UnsupportedCallRaises ==
    (/\ lastCall.op \in {"forward", "prefill", "generate"}
     /\ cleans = 0
     /\ ~OpHandles(backend, lastCall.op, config.task))
       => lastCall.outcome = "NotImplementedError"

\* C8: whenever PyTXIBackend launches the generation server, on the pretrained and
\* on the no-weights path, the directory the server loads from already holds a
\* generation config with eos_token_id = pad_token_id = -100 and
\* temperature = top_p = 1.0.
C8_GenerationConfigPersisted ==
    \A l \in Loads :
       l.engine = "TGI" =>
          /\ l.source \in {"hub", "no_weights_model"}
          /\ l.has_generation
          /\ Patched(l.generation)

C8_Witness ==
    /\ ~Patched(hub_generation)
    /\ \E l \in Loads :
          l.engine = "TGI" /\ l.source = "no_weights_model" /\ Patched(l.generation)

\* The checkpoint the claim describes: weight and bias of a Linear(1, 1), and a g_idx
\* per module with in_features exactly when the quantization is exllama v2.
MinimalCheckpoint ==
    {Tensor(0, "weight"), Tensor(0, "bias")} \cup
      (IF config.exllama_v2 /\
          ({config.quantization_scheme, config.pretrained_quant_method}
             \cap {"gptq", "awq"} # {})
       THEN {Tensor(m, "g_idx") : m \in in_features}
       ELSE {})

\* C9 as stated: whenever an engine loads the no_weights_model directory, on both
\* backends, the checkpoint in it is the minimal checkpoint and holds no other
\* tensor.
C9_MinimalCheckpointAtEveryLoad ==
    \A l \in Loads : l.source = "no_weights_model" => l.tensors = MinimalCheckpoint

\* C9 amended: the checkpoint is the minimal one whenever the in-process
\* from_pretrained call loads the no_weights_model directory (the PyTorchBackend
\* load and PyTXIBackend's materializing load); PyTXIBackend then overwrites it with
\* the whole randomly initialised model, and that is what the TGI/TEI server loads.
C9_MinimalCheckpointInProcess ==
    \A l \in Loads :
       l.source = "no_weights_model" =>
          IF l.engine \in {"TGI", "TEI"}
          THEN l.tensors = {Tensor(m, "weight") : m \in Modules}
          ELSE l.tensors = MinimalCheckpoint

C9_Witness ==
    /\ backend = "pytorch" /\ in_features # {}
    /\ \E l \in Loads :
          /\ l.source = "no_weights_model"
          /\ \E m \in in_features : Tensor(m, "g_idx") \in l.tensors

\* C10 as stated: in a successful construction with no_weights, every engine load
\* call is given the synthesized checkpoint's location, never the original model
\* identifier, whatever deepspeed_inference is.
C10_LoadsUseNoWeightsPath ==
    (pc = "ready" /\ config.no_weights) =>
       \A l \in Loads : l.model_id \in {HostNoWeightsPath, TXINoWeightsPath}

\* C11: whenever the PyTorchBackend constructor has rejected its configuration with
\* a ValueError, no engine load call has been made, no no-weights checkpoint has
\* been written and no model is held; and when the configuration combines
\* deepspeed_inference with quantization, the quantization config has not been
\* processed and the temporary directory has not been created either.
C11_RejectedBeforeLoading ==
    (backend = "pytorch" /\ error = "ValueError") =>
       /\ loads = <<>>
       /\ ~nwdir.exists
       /\ handle = NoHandle
       /\ (config.deepspeed_inference /\ is_quantized(config)) =>
             /\ quantization_config = "None"
             /\ tmpdir = "none"
             /\ attrs \cap {"quantization_config", "tmpdir"} = {}

C11_Witness ==
    /\ backend = "pytorch" /\ pc = "failed" /\ error = "ValueError"
    /\ config.library \in {"timm", "diffusers", "transformers"}
    /\ config.deepspeed_inference /\ is_quantized(config)

\* The load calls made by PyTorchBackend.load_model_from_pretrained (the deepspeed
\* branch of load_model_with_no_weights loads on the meta device by itself).
PretrainedLoads == {l \in Loads : backend = "pytorch" /\ ~l.meta}

\* C12 as stated: for every library, a load with a device_map configured is not
\* followed by an explicit move to config.device, and a model is moved only when
\* device_map is None and the device is not cpu.
C12_NoMoveWithDeviceMap ==
    \A l \in PretrainedLoads :
       /\ "device_map" \in toggles => ~l.moved
       /\ l.moved => ("device_map" \notin toggles /\ config.device # "cpu")

\* C12 amended: the same for diffusers pipelines and transformers models; a timm
\* model, which is created without a device_map, is moved only when the device is
\* not cpu, whatever device_map is.
C12_NoMoveWithDeviceMapUnlessTimm ==
    \A l \in PretrainedLoads :
       /\ ("device_map" \in toggles /\ config.library # "timm") => ~l.moved
       /\ l.moved => /\ config.device # "cpu"
                     /\ config.library # "timm" => "device_map" \notin toggles

C12_Witness ==
    /\ backend = "pytorch" /\ pc = "ready"
    /\ config.library = "diffusers" /\ config.device = "cuda"
    /\ "device_map" \in toggles
    /\ \E l \in PretrainedLoads : l.device_map /\ ~l.moved

\* The transformations applied to the held model so far, in order of application.
Applied == SelectSeq(handle.transforms, IsTransformation)

\* The load states of PyTorchBackend at a moment of its life.
C13_LoadStatesInOrder ==
    backend = "pytorch" =>
       \* quantization is resolved before weights are sourced
       /\ (is_quantized(config) /\ (loads # <<>> \/ nwdir.exists \/ handle.kind # "none"))
             => quantization_config = QuantizationClass(config)
       \* nothing is transformed before the weights are loaded and the load has returned
       /\ PTPosition(pc) <= PTPosition("pt_cache_impl") => handle.transforms = <<>>
       /\ handle.transforms # <<>> =>
             /\ handle.kind # "none" /\ loads # <<>>
             /\ LET applied == Applied IN
                \* transformations are applied in the fixed order, each at most once
                \* and only when its toggle is set
                /\ \A i, j \in 1..Len(applied) :
                      i < j => TransformIndex(applied[i]) < TransformIndex(applied[j])
                /\ \A i \in 1..Len(applied) : StepEnabled(applied[i])
       \* Ready only after every enabled step
       /\ (pc = "ready" /\ "pretrained_model" \in attrs) =>
             \A t \in Transformations :
                StepEnabled(t) => \E i \in 1..Len(handle.transforms) : handle.transforms[i] = t

\* C13: PyTorchBackend construction goes through its statements in source order and
\* never back, and at every moment the load states are in the fixed order:
\* quantization config resolved before weights are sourced, weights loaded before any
\* transformation, transformations applied in the order eval mode, BetterTransformer,
\* PEFT, torch.compile, DeepSpeed, each only when its toggle is set, and Ready only
\* after every enabled step.
C13_FixedOrder ==
    /\ []C13_LoadStatesInOrder
    /\ [][backend = "pytorch" => PTPosition(pc') >= PTPosition(pc)]_vars

C13_Witness ==
    /\ backend = "pytorch" /\ pc = "ready"
    /\ Applied = TransformOrder
    /\ loads # <<>>

\* The values the caller put in the config.
Originals == [model |-> OrigModel, volumes |-> OrigVolumes]

\* C14: when each of two concurrently constructed PyTXIBackend instances owns a
\* private config copy, in every interleaving each instance launches its server with
\* its own temporary volume and, once its load_model_with_no_weights has returned,
\* its config holds the original model and volumes again. (Over one shared config
\* object some interleaving does not: C14_Witness.)
C14_PrivateCopiesSafe ==
    ~conc.shared =>
       \A i \in Instances :
          /\ conc.inst[i].launched.volumes \in {"none", TmpVolumesOf(i)}
          /\ conc.inst[i].launched.model_id \in {"none", TXINoWeightsPath}
          /\ conc.inst[i].pc = "done" => conc.cfg[i] = Originals

\* Two instances over one config object, both returned from
\* load_model_with_no_weights without error: the config is left different from the
\* original values, and one instance has launched its server with the other's
\* temporary volume.
C14_Witness ==
    /\ conc.shared
    /\ \A i \in Instances : conc.inst[i].pc = "done"
    /\ conc.cfg[1] # Originals
    /\ \E i, j \in Instances : i # j /\ conc.inst[i].launched.volumes = TmpVolumesOf(j)

\* C15 as stated: PyTorchBackend's constructor makes no inference call on the loaded
\* model, whatever the configuration, torch_compile=true included; calls reach the
\* model only through forward/prefill/generate once the backend is Ready.
C15_NoInferenceInConstructor ==
    backend = "pytorch" =>
       /\ inference.construct = 0
       /\ inference.use > 0 => pc = "ready"
====
